---- MODULE Spec2Model ----
(***************************************************************************)
(* State-machine model of the MCP9808 driver of src/mcp9808.py: the driver *)
(* object, the transport calls it issues, and the register file of the     *)
(* sensor at the other end of the bus.                                     *)
(*                                                                         *)
(* Five specifications share the variables and the handlers:               *)
(*   Spec       one caller, every public method, sampled arguments;        *)
(*   SpecCfg    one caller, the three config methods in any order;         *)
(*   SpecAlert  one call of set_alert_mode, over every value of either     *)
(*              config byte;                                               *)
(*   SpecCodec  one call of a codec method on a constructed driver, over   *)
(*              the whole input domain of the codec;                       *)
(*   SpecConc   two callers whose config read-modify-write cycles          *)
(*              interleave at the level of single transport calls.         *)
(*                                                                         *)
(* Numbers: a byte is 0..255.  A temperature is held as an integer count   *)
(* of 1/FracDen degree (arguments) or of 1/16 degree (results of           *)
(* get_temp), so that the float arithmetic of the source, which is exact   *)
(* on these values, is integer arithmetic here.                            *)
(***************************************************************************)
EXTENDS Integers, Sequences, FiniteSets, TLC

VARIABLES
    inst,   \* "none" | "failed" | "ok": whether a driver instance exists
    regs,   \* the sensor's registers the driver reads back: config and ids
    ptr,    \* the sensor's register pointer
    bus,    \* transport calls issued by the most recent operation
    last,   \* the most recent operation: name, arguments, outcome, result
    cfg0,   \* history: the config register before the first operation
    pc,     \* SpecConc: caller -> position in its read-modify-write cycle
    loc,    \* SpecConc: caller -> its operation and its local `cfg`
    overlap \* SpecConc: history, some call began while another was running

vars == <<inst, regs, ptr, bus, last, cfg0, pc, loc, overlap>>

---------------------------------------------------------------------------
(* Register pointers and enumerations, src/mcp9808.py:6-35 *)

REG_CONFIG == 1
REG_TEMP_BOUNDARY_UPPER == 2
REG_TEMP_BOUNDARY_LOWER == 3
REG_TEMP_BOUNDARY_CRITICAL == 4
REG_TEMP == 5
REG_MANUFACTURER_ID == 6
REG_DEVIDE_ID == 7
REG_RESOLUTION == 8

TEMP_RESOLUTION_MIN == 0
TEMP_RESOLUTION_LOW == 1
TEMP_RESOLUTION_AVG == 2
TEMP_RESOLUTION_MAX == 3

ALERT_SELECT_ALL == 0
ALERT_SELECT_CRIT == 1
ALERT_POLARITY_ALOW == 0
ALERT_POLARITY_AHIGH == 1
ALERT_OUTPUT_COMPARATOR == 0
ALERT_OUTPUT_INTERRUPT == 1

\* b'\x00T' and b'\x04\x00', the identifiers _check_device expects
MANUFACTURER_ID == <<0, 84>>
DEVICE_ID == <<4, 0>>

---------------------------------------------------------------------------
(* Bounds of the model *)

\* byte samples 0x00, 0x55, 0xAA, 0xFF, ... for the initial config register
\* of SpecCfg, SpecAlert and SpecConc
NumByteSamples == 3
\* arguments of set_alert_boundary_temp are multiples of 1/FracDen degree
FracDen == 16
\* Spec samples boundary values this many steps around each range end
EdgeSteps == 1

---------------------------------------------------------------------------
(* Python integer operators on the values the driver handles *)

Byte == 0..255

RECURSIVE BitAnd(_, _)
\* a & b for a, b >= 0
BitAnd(a, b) ==
    IF a = 0 \/ b = 0 THEN 0
    ELSE (a % 2) * (b % 2) + 2 * BitAnd(a \div 2, b \div 2)

\* a | b for a, b >= 0
BitOr(a, b) == a + b - BitAnd(a, b)

\* a & ~b for a, b >= 0
BitAndNot(a, b) == a - BitAnd(a, b)

\* a & m for any integer a and a mask 0 <= m < 2^16: a negative Python int
\* is an infinite two's complement, of which the mask keeps the low bits
BitMask(a, m) == BitAnd(a % 65536, m)

RECURSIVE Pow2(_)
Pow2(n) == IF n = 0 THEN 1 ELSE 2 * Pow2(n - 1)

Shl(a, n) == a * Pow2(n)
Shr(a, n) == a \div Pow2(n)

\* int(x) of the number n/den: truncation toward zero
TruncDiv(n, den) == IF n >= 0 THEN n \div den ELSE -((-n) \div den)

Abs(n) == IF n >= 0 THEN n ELSE -n

\* Python arguments carry their class: bool (v is 0 or 1) or int
PyBool(b) == [t |-> "bool", v |-> IF b THEN 1 ELSE 0]
PyInt(n) == [t |-> "int", v |-> n]

---------------------------------------------------------------------------
(* The transport and the sensor behind it *)

Dev == [regs |-> regs, ptr |-> ptr]

W(buf) == [k |-> "w", d |-> buf]
R(buf) == [k |-> "r", d |-> buf]

ReadOnly == {REG_TEMP, REG_MANUFACTURER_ID, REG_DEVIDE_ID}

\* self._i2c.writeto / .send: the first byte sets the register pointer, the
\* bytes after it are stored in that register.  regs holds the registers the
\* driver ever reads back (config and the two ids); the boundary and
\* resolution registers are only ever written, and what was written to them
\* is the payload recorded in bus.
_send(d, buf) ==
    [ptr  |-> buf[1],
     regs |-> IF Len(buf) > 1 /\ buf[1] \in DOMAIN d.regs /\ buf[1] \notin ReadOnly
              THEN [d.regs EXCEPT ![buf[1]] = Tail(buf)]
              ELSE d.regs]

\* self._i2c.readfrom / .recv: n bytes of the register the pointer names; the
\* ambient register holds whatever the sensor converted last (amb)
_recv(d, n, amb) ==
    IF d.ptr = REG_TEMP THEN SubSeq(amb, 1, n) ELSE SubSeq(d.regs[d.ptr], 1, n)

NoAmbient == <<0, 0>>

---------------------------------------------------------------------------
(* _check_device and __init__ *)

I2cKinds == {"None", "other_class", "writeto", "send", "no_method"}

Op(name, args, outcome, ret) ==
    [op |-> name, args |-> args, outcome |-> outcome, ret |-> ret]

NoOp == Op("none", <<>>, "ok", <<>>)

\* variant: the device id is read but never compared
_check_device_no_devid(d) ==
    LET d1   == _send(d, <<REG_MANUFACTURER_ID>>)
        m_id == _recv(d1, 2, NoAmbient)
        d2   == _send(d1, <<REG_DEVIDE_ID>>)
        d_id == _recv(d2, 2, NoAmbient)
    IN  IF m_id # MANUFACTURER_ID
        THEN [d |-> d1, ok |-> FALSE,
              bus |-> <<W(<<REG_MANUFACTURER_ID>>), R(m_id)>>]
        ELSE [d |-> d2, ok |-> TRUE,
              bus |-> <<W(<<REG_MANUFACTURER_ID>>), R(m_id),
                        W(<<REG_DEVIDE_ID>>), R(d_id)>>]

\* the outcome of _check_device on device d: the device afterwards, the
\* transport calls issued and whether both identifiers matched
_check_device(d) ==
    LET d1   == _send(d, <<REG_MANUFACTURER_ID>>)
        m_id == _recv(d1, 2, NoAmbient)
        d2   == _send(d1, <<REG_DEVIDE_ID>>)
        d_id == _recv(d2, 2, NoAmbient)
    IN  IF m_id # MANUFACTURER_ID
        THEN [d |-> d1, ok |-> FALSE,
              bus |-> <<W(<<REG_MANUFACTURER_ID>>), R(m_id)>>]
        ELSE [d |-> d2, ok |-> (d_id = DEVICE_ID),
              bus |-> <<W(<<REG_MANUFACTURER_ID>>), R(m_id),
                        W(<<REG_DEVIDE_ID>>), R(d_id)>>]

\* MCP9808(i2c): k is the kind of object passed as i2c
__init__(k) ==
    /\ inst # "ok"
    /\ UNCHANGED <<cfg0, pc, loc, overlap>>
    /\ IF k \in {"None", "other_class"}
       THEN /\ inst' = "failed"
            /\ bus' = <<>>
            /\ last' = Op("__init__", <<>>, "ValueError", <<>>)
            /\ UNCHANGED <<regs, ptr>>
       ELSE IF k = "no_method"
       THEN \* _send finds neither writeto nor send
            /\ inst' = "failed"
            /\ bus' = <<>>
            /\ last' = Op("__init__", <<>>, "Exception", <<>>)
            /\ UNCHANGED <<regs, ptr>>
       ELSE LET c == _check_device(Dev)
            IN  /\ inst' = IF c.ok THEN "ok" ELSE "failed"
                /\ regs' = c.d.regs
                /\ ptr' = c.d.ptr
                /\ bus' = c.bus
                /\ last' = Op("__init__", <<>>,
                              IF c.ok THEN "ok" ELSE "Exception", <<>>)

---------------------------------------------------------------------------
(* The config register: set_shutdown_mode, set_alert_mode,                 *)
(* acknowledge_alert_irq                                                   *)

\* what a handler leaves: the device, the transport calls, the record
Finish(d, b, l) ==
    /\ regs' = d.regs
    /\ ptr' = d.ptr
    /\ bus' = b
    /\ last' = l
    /\ UNCHANGED <<inst, cfg0, pc, loc, overlap>>

\* variant: the register is overwritten without regard to the cfg read
ShutdownBytes_blind(cfg, shdn) ==
    <<REG_CONFIG, IF shdn.v # 0 THEN 1 ELSE 0, 0>>

\* the bytearray b of set_shutdown_mode, from the cfg read
ShutdownBytes(cfg, shdn) ==
    <<REG_CONFIG,
      IF shdn.v # 0 THEN BitOr(cfg[1], 1) ELSE BitAndNot(cfg[1], 1),
      cfg[2]>>

set_shutdown_mode(shdn) ==
    /\ inst = "ok"
    /\ IF shdn.t # "bool"
       THEN Finish(Dev, <<>>, Op("set_shutdown_mode", <<shdn>>, "ValueError", <<>>))
       ELSE LET d1  == _send(Dev, <<REG_CONFIG>>)
                cfg == _recv(d1, 2, NoAmbient)
                b   == ShutdownBytes(cfg, shdn)
                d2  == _send(d1, b)
            IN  Finish(d2, <<W(<<REG_CONFIG>>), R(cfg), W(b)>>,
                       Op("set_shutdown_mode", <<shdn>>, "ok", <<>>))

\* the argument checks of set_alert_mode; `in [0, 1]` compares by value
ValidAlertArgs(enable_alert, output_mode, polarity, selector) ==
    /\ enable_alert.t = "bool"
    /\ output_mode.v \in {ALERT_OUTPUT_COMPARATOR, ALERT_OUTPUT_INTERRUPT}
    /\ selector.v \in {ALERT_SELECT_ALL, ALERT_SELECT_CRIT}
    /\ polarity.v \in {ALERT_POLARITY_ALOW, ALERT_POLARITY_AHIGH}

\* variant: the high nibble of the low byte is not carried over
AlertBytes_blind(cfg, enable_alert, output_mode, polarity, selector) ==
    LET en         == IF enable_alert.v # 0 THEN 1 ELSE 0
        alert_bits == BitMask(BitOr(BitOr(output_mode.v, Shl(polarity.v, 1)),
                                    BitOr(Shl(selector.v, 2), Shl(en, 3))), 15)
    IN  <<REG_CONFIG, cfg[1], alert_bits>>

\* the bytearray b of set_alert_mode, from the cfg read
AlertBytes(cfg, enable_alert, output_mode, polarity, selector) ==
    LET en         == IF enable_alert.v # 0 THEN 1 ELSE 0
        alert_bits == BitMask(BitOr(BitOr(output_mode.v, Shl(polarity.v, 1)),
                                    BitOr(Shl(selector.v, 2), Shl(en, 3))), 15)
        lsb_data   == BitOr(BitAnd(cfg[2], 240), alert_bits)
    IN  <<REG_CONFIG, cfg[1], lsb_data>>

set_alert_mode(enable_alert, output_mode, polarity, selector) ==
    LET args == <<enable_alert, output_mode, polarity, selector>>
    IN  /\ inst = "ok"
        /\ IF ~ValidAlertArgs(enable_alert, output_mode, polarity, selector)
           THEN Finish(Dev, <<>>, Op("set_alert_mode", args, "ValueError", <<>>))
           ELSE LET d1  == _send(Dev, <<REG_CONFIG>>)
                    cfg == _recv(d1, 2, NoAmbient)
                    b   == AlertBytes(cfg, enable_alert, output_mode,
                                      polarity, selector)
                    d2  == _send(d1, b)
                IN  Finish(d2, <<W(<<REG_CONFIG>>), R(cfg), W(b)>>,
                           Op("set_alert_mode", args, "ok", <<>>))

\* variant: only the interrupt-clear bit is written
AckBytes_blind(cfg) == <<REG_CONFIG, 0, 32>>

\* the bytearray b of acknowledge_alert_irq, from the cfg read
AckBytes(cfg) == <<REG_CONFIG, cfg[1], BitOr(cfg[2], 32)>>

\* variant: a single blind write instead of the read-modify-write cycle
acknowledge_alert_irq_blind ==
    /\ inst = "ok"
    /\ LET b  == <<REG_CONFIG, 0, 32>>
           d1 == _send(Dev, b)
       IN  Finish(d1, <<W(b)>>, Op("acknowledge_alert_irq", <<>>, "ok", <<>>))

acknowledge_alert_irq ==
    /\ inst = "ok"
    /\ LET d1  == _send(Dev, <<REG_CONFIG>>)
           cfg == _recv(d1, 2, NoAmbient)
           b   == AckBytes(cfg)
           d2  == _send(d1, b)
       IN  Finish(d2, <<W(<<REG_CONFIG>>), R(cfg), W(b)>>,
                  Op("acknowledge_alert_irq", <<>>, "ok", <<>>))

---------------------------------------------------------------------------
(* set_alert_boundary_temp and set_resolution                              *)

PyNum(n) == [t |-> "num", v |-> n]

BoundaryRegs ==
    {REG_TEMP_BOUNDARY_LOWER, REG_TEMP_BOUNDARY_UPPER, REG_TEMP_BOUNDARY_CRITICAL}

\* variant: the upper range check is off by one degree
ValidBoundaryArgs_off_by_one(boundary_register, n) ==
    /\ boundary_register \in BoundaryRegs
    /\ ~(n < -128 * FracDen \/ n > 128 * FracDen)

\* the argument checks of set_alert_boundary_temp; value is n/FracDen degree
ValidBoundaryArgs(boundary_register, n) ==
    /\ boundary_register \in BoundaryRegs
    /\ ~(n < -128 * FracDen \/ n > 127 * FracDen)

\* variant: the integer part is kept in 8 bits instead of 9
TwosValue_mask8(n) ==
    LET integral0 == TruncDiv(n, FracDen)
        frac0     == Abs(n - integral0 * FracDen)
        integral1 == IF integral0 < 0 THEN Shl(1, 8) + integral0 ELSE integral0
        integral  == Shl(BitMask(integral1, 255), 4)
        twice     == 2 * frac0
        rest      == twice - FracDen * (twice \div FracDen)
        frac      == Shl(Shl(IF twice >= FracDen THEN 1 ELSE 0, 1)
                         + (IF 2 * rest >= FracDen THEN 1 ELSE 0), 2)
    IN  BitMask(IF n >= 0 THEN integral + frac ELSE integral - frac, 8188)

\* variant: the fraction bits are added for negative values too
TwosValue_always_add(n) ==
    LET integral0 == TruncDiv(n, FracDen)
        frac0     == Abs(n - integral0 * FracDen)
        integral1 == IF integral0 < 0 THEN Shl(1, 9) + integral0 ELSE integral0
        integral  == Shl(BitMask(integral1, 511), 4)
        twice     == 2 * frac0
        rest      == twice - FracDen * (twice \div FracDen)
        frac      == Shl(Shl(IF twice >= FracDen THEN 1 ELSE 0, 1)
                         + (IF 2 * rest >= FracDen THEN 1 ELSE 0), 2)
    IN  BitMask(integral + frac, 8188)

\* twos_value of set_alert_boundary_temp for value = n/FracDen
TwosValue(n) ==
    LET integral0 == TruncDiv(n, FracDen)                \* int(value)
        frac0     == Abs(n - integral0 * FracDen)        \* numerator of frac
        integral1 == IF integral0 < 0 THEN Shl(1, 9) + integral0 ELSE integral0
        integral  == Shl(BitMask(integral1, 511), 4)
        twice     == 2 * frac0                           \* numerator of frac * 2
        rest      == twice - FracDen * (twice \div FracDen)
        frac      == Shl(Shl(IF twice >= FracDen THEN 1 ELSE 0, 1)
                         + (IF 2 * rest >= FracDen THEN 1 ELSE 0), 2)
    IN  BitMask(IF n >= 0 THEN integral + frac ELSE integral - frac, 8188)

\* the bytearray b of set_alert_boundary_temp
BoundaryBytes(boundary_register, n) ==
    LET twos_value == TwosValue(n)
    IN  <<boundary_register,
          Shr(BitAnd(twos_value, 65280), 8),
          BitAnd(twos_value, 255)>>

set_alert_boundary_temp(boundary_register, n) ==
    LET args == <<PyInt(boundary_register), PyNum(n)>>
    IN  /\ inst = "ok"
        /\ IF ~ValidBoundaryArgs(boundary_register, n)
           THEN Finish(Dev, <<>>,
                       Op("set_alert_boundary_temp", args, "ValueError", <<>>))
           ELSE LET b  == BoundaryBytes(boundary_register, n)
                    d1 == _send(Dev, b)
                IN  Finish(d1, <<W(b)>>,
                           Op("set_alert_boundary_temp", args, "ok", <<>>))

ValidResolution(r) ==
    r \in {TEMP_RESOLUTION_MIN, TEMP_RESOLUTION_LOW,
           TEMP_RESOLUTION_AVG, TEMP_RESOLUTION_MAX}

set_resolution(r) ==
    /\ inst = "ok"
    /\ IF ~ValidResolution(r)
       THEN Finish(Dev, <<>>, Op("set_resolution", <<PyInt(r)>>, "ValueError", <<>>))
       ELSE LET b  == <<REG_RESOLUTION, r>>
                d1 == _send(Dev, b)
            IN  Finish(d1, <<W(b)>>, Op("set_resolution", <<PyInt(r)>>, "ok", <<>>))

---------------------------------------------------------------------------
(* get_temp and get_temp_int                                               *)

\* variant: 256 - (u + l) for readings below zero
TempSixteenths_flipped(raw) ==
    LET u   == Shl(BitAnd(raw[1], 15), 4)
        l16 == raw[2]
    IN  IF BitAnd(raw[1], 16) = 16
        THEN 256 * 16 - (16 * u + l16)
        ELSE 16 * u + l16

\* temp of get_temp, in sixteenths of a degree: u is an integer and
\* l = raw[1] / 16 a multiple of 1/16, so 16 * (u + l) = 16 * u + raw[1]
TempSixteenths(raw) ==
    LET u   == Shl(BitAnd(raw[1], 15), 4)
        l16 == raw[2]
    IN  IF BitAnd(raw[1], 16) = 16
        THEN (16 * u + l16) - 256 * 16
        ELSE 16 * u + l16

\* amb: the ambient register at the time of the read
get_temp(amb) ==
    /\ inst = "ok"
    /\ LET d1  == _send(Dev, <<REG_TEMP>>)
           raw == _recv(d1, 2, amb)
       IN  Finish(d1, <<W(<<REG_TEMP>>), R(raw)>>,
                  Op("get_temp", <<>>, "ok", <<TempSixteenths(raw)>>))

\* the pair (temp, frac) of get_temp_int
TempInt(raw) ==
    LET u == Shl(BitAnd(raw[1], 15), 4)
        l == Shr(raw[2], 4)
    IN  IF BitAnd(raw[1], 16) = 16
        THEN <<(u + l) - 256, -Shr(BitAnd(raw[2], 15) * 100, 4)>>
        ELSE <<u + l, Shr(BitAnd(raw[2], 15) * 100, 4)>>

get_temp_int(amb) ==
    /\ inst = "ok"
    /\ LET d1  == _send(Dev, <<REG_TEMP>>)
           raw == _recv(d1, 2, amb)
       IN  Finish(d1, <<W(<<REG_TEMP>>), R(raw)>>,
                  Op("get_temp_int", <<>>, "ok", TempInt(raw)))

---------------------------------------------------------------------------
(* Spec: one caller, every public method, sampled arguments                *)

ByteSamples == {(k * 85) % 256 : k \in 0..NumByteSamples}

Callers == {1, 2}

NoCall == [op |-> "none", args |-> <<>>, cfg |-> <<>>]

DeviceRegs(cfg, m_id, d_id) ==
    (REG_CONFIG :> cfg) @@ (REG_MANUFACTURER_ID :> m_id) @@ (REG_DEVIDE_ID :> d_id)

\* a sensor after power-up, before any driver exists
PowerUp(cfgs, m_ids, d_ids) ==
    /\ inst = "none"
    /\ \E cfg \in cfgs, m \in m_ids, d \in d_ids : regs = DeviceRegs(cfg, m, d)
    /\ ptr = 0
    /\ bus = <<>>
    /\ last = NoOp
    /\ cfg0 = regs[REG_CONFIG]
    /\ pc = [c \in Callers |-> "idle"]
    /\ loc = [c \in Callers |-> NoCall]
    /\ overlap = FALSE

\* the config register at power-up is the all-zero default or has status,
\* lock and hysteresis bits set
Init ==
    PowerUp({<<0, 0>>, <<170, 85>>},
            {MANUFACTURER_ID, <<0, 85>>, <<84, 0>>},
            {DEVICE_ID, <<4, 1>>, <<0, 4>>})

ShdnArgs == {PyBool(TRUE), PyBool(FALSE), PyInt(1)}

\* every valid argument tuple of set_alert_mode, and tuples with one
\* argument outside its set
AlertArgs ==
    ({PyBool(TRUE), PyBool(FALSE)} \X {PyInt(0), PyInt(1)}
        \X {PyInt(0), PyInt(1)} \X {PyInt(0), PyInt(1)})
    \cup {<<PyInt(1), PyInt(1), PyInt(0), PyInt(0)>>,
          <<PyBool(TRUE), PyInt(2), PyInt(0), PyInt(0)>>,
          <<PyBool(TRUE), PyInt(1), PyInt(2), PyInt(0)>>,
          <<PyBool(TRUE), PyInt(1), PyInt(0), PyInt(2)>>}

ResolutionArgs == 0..4

BoundaryMin == -128 * FracDen
BoundaryMax == 127 * FracDen

\* boundary values at and around both ends of the range, on every boundary
\* register, and a valid value on registers that are no boundary register
BoundaryArgs ==
    (BoundaryRegs \X {BoundaryMin, BoundaryMax})
    \cup ({REG_TEMP_BOUNDARY_UPPER}
          \X ({-129 * FracDen, 128 * FracDen}
              \cup {BoundaryMin - j : j \in 1..EdgeSteps}
              \cup {BoundaryMax + j : j \in 1..EdgeSteps}))
    \cup ({REG_CONFIG, REG_TEMP} \X {0})

AmbientArgs == {<<1, 144>>, <<31, 248>>, <<255, 255>>}

Construct == \E k \in I2cKinds : __init__(k)
SetShutdownMode == \E shdn \in ShdnArgs : set_shutdown_mode(shdn)
SetAlertMode == \E a \in AlertArgs : set_alert_mode(a[1], a[2], a[3], a[4])
AcknowledgeAlertIrq == acknowledge_alert_irq
SetAlertBoundaryTemp == \E a \in BoundaryArgs : set_alert_boundary_temp(a[1], a[2])
SetResolution == \E r \in ResolutionArgs : set_resolution(r)
GetTemp == \E amb \in AmbientArgs : get_temp(amb)
GetTempInt == \E amb \in AmbientArgs : get_temp_int(amb)

Next ==
    \/ Construct
    \/ SetShutdownMode
    \/ SetAlertMode
    \/ AcknowledgeAlertIrq
    \/ SetAlertBoundaryTemp
    \/ SetResolution
    \/ GetTemp
    \/ GetTempInt

Spec == Init /\ [][Next]_vars

---------------------------------------------------------------------------
(* SpecCfg: the three config methods, in any serial order, on a genuine    *)
(* sensor whose two config bytes are sampled independently                 *)

InitCfg == PowerUp(ByteSamples \X ByteSamples, {MANUFACTURER_ID}, {DEVICE_ID})

NextCfg ==
    \/ Construct
    \/ SetShutdownMode
    \/ SetAlertMode
    \/ AcknowledgeAlertIrq

SpecCfg == InitCfg /\ [][NextCfg]_vars

---------------------------------------------------------------------------
(* SpecCodec: one call of a codec method on a freshly constructed driver,  *)
(* over every ambient register value and every boundary value that is a    *)
(* multiple of 1/FracDen degree in [-129, 128]                             *)

\* the state __init__ leaves on a genuine sensor
Constructed(cfgs) ==
    /\ inst = "ok"
    /\ \E cfg \in cfgs : regs = DeviceRegs(cfg, MANUFACTURER_ID, DEVICE_ID)
    /\ ptr = REG_DEVIDE_ID
    /\ bus = <<W(<<REG_MANUFACTURER_ID>>), R(MANUFACTURER_ID),
               W(<<REG_DEVIDE_ID>>), R(DEVICE_ID)>>
    /\ last = Op("__init__", <<>>, "ok", <<>>)
    /\ cfg0 = regs[REG_CONFIG]
    /\ pc = [c \in Callers |-> "idle"]
    /\ loc = [c \in Callers |-> NoCall]
    /\ overlap = FALSE

InitCodec == Constructed({<<0, 0>>})

FirstCall == last.op = "__init__"

\* SpecAlert: one call of set_alert_mode on a config register in which one
\* byte is any byte and the other is sampled
InitAlert == Constructed((ByteSamples \X Byte) \cup (Byte \X ByteSamples))

AlertOnce == FirstCall /\ SetAlertMode

SpecAlert == InitAlert /\ [][AlertOnce]_vars

CodecGetTemp ==
    FirstCall /\ \E b0 \in Byte, b1 \in Byte : get_temp(<<b0, b1>>)
CodecGetTempInt ==
    FirstCall /\ \E b0 \in Byte, b1 \in Byte : get_temp_int(<<b0, b1>>)
CodecSetAlertBoundaryTemp ==
    FirstCall /\ \E r \in BoundaryRegs, n \in (-129 * FracDen)..(128 * FracDen) :
                    set_alert_boundary_temp(r, n)

NextCodec ==
    \/ CodecGetTemp
    \/ CodecGetTempInt
    \/ CodecSetAlertBoundaryTemp

SpecCodec == InitCodec /\ [][NextCodec]_vars

---------------------------------------------------------------------------
(* SpecConc: two callers, one config call each, the three transport calls  *)
(* of each read-modify-write cycle taken one at a time                     *)

Call(name, args) == [op |-> name, args |-> args, cfg |-> <<>>]

ConcCalls ==
    {Call("set_shutdown_mode", <<PyBool(TRUE)>>),
     Call("set_shutdown_mode", <<PyBool(FALSE)>>),
     Call("set_alert_mode", <<PyBool(TRUE), PyInt(1), PyInt(0), PyInt(0)>>),
     Call("set_alert_mode", <<PyBool(TRUE), PyInt(1), PyInt(1), PyInt(1)>>),
     Call("set_alert_mode", <<PyBool(FALSE), PyInt(0), PyInt(0), PyInt(0)>>),
     Call("acknowledge_alert_irq", <<>>)}

\* the bytearray the call writes back, from its own cfg
WriteBytes(call) ==
    CASE call.op = "set_shutdown_mode" -> ShutdownBytes(call.cfg, call.args[1])
      [] call.op = "set_alert_mode" ->
            AlertBytes(call.cfg, call.args[1], call.args[2], call.args[3], call.args[4])
      [] call.op = "acknowledge_alert_irq" -> AckBytes(call.cfg)

\* caller c enters a config method and sends the register pointer
SendPointer(c, call) ==
    /\ inst = "ok"
    /\ pc[c] = "idle"
    /\ LET d1 == _send(Dev, <<REG_CONFIG>>)
       IN  /\ regs' = d1.regs
           /\ ptr' = d1.ptr
    /\ bus' = Append(bus, W(<<REG_CONFIG>>))
    /\ pc' = [pc EXCEPT ![c] = "sent"]
    /\ loc' = [loc EXCEPT ![c] = call]
    /\ overlap' = (overlap \/ \E o \in Callers \ {c} : pc[o] \in {"sent", "read"})
    /\ UNCHANGED <<inst, last, cfg0>>

\* cfg = self._recv(2)
ReceiveCfg(c) ==
    /\ pc[c] = "sent"
    /\ LET cfg == _recv(Dev, 2, NoAmbient)
       IN  /\ loc' = [loc EXCEPT ![c].cfg = cfg]
           /\ bus' = Append(bus, R(cfg))
    /\ pc' = [pc EXCEPT ![c] = "read"]
    /\ UNCHANGED <<inst, regs, ptr, last, cfg0, overlap>>

\* self._send(b)
WriteBack(c) ==
    /\ pc[c] = "read"
    /\ LET b  == WriteBytes(loc[c])
           d1 == _send(Dev, b)
       IN  /\ regs' = d1.regs
           /\ ptr' = d1.ptr
           /\ bus' = Append(bus, W(b))
    /\ pc' = [pc EXCEPT ![c] = "done"]
    /\ last' = Op(loc[c].op, loc[c].args, "ok", <<>>)
    /\ UNCHANGED <<inst, loc, cfg0, overlap>>

InitConc ==
    /\ Constructed({<<b, b>> : b \in ByteSamples})

ConcSendPointer == \E c \in Callers, call \in ConcCalls : SendPointer(c, call)
ConcReceiveCfg == \E c \in Callers : ReceiveCfg(c)
ConcWriteBack == \E c \in Callers : WriteBack(c)

NextConc ==
    \/ ConcSendPointer
    \/ ConcReceiveCfg
    \/ ConcWriteBack

SpecConc == InitConc /\ [][NextConc]_vars

---------------------------------------------------------------------------
(* Vocabulary of the properties                                            *)

Bit(x, i) == (x \div Pow2(i)) % 2

\* a 13-bit word read as two's complement
Signed13(w) == IF w >= 4096 THEN w - 8192 ELSE w

Kinds(b) == [i \in 1..Len(b) |-> b[i].k]

CfgReg == regs[REG_CONFIG]

---------------------------------------------------------------------------
(* C1-C2: the config register codec, under SpecAlert and SpecCfg           *)

\* C1: for every config value read and every valid (enable_alert,
\* output_mode, polarity, selector), set_alert_mode writes [1, high, low]
\* where the low nibble of low is
\* output_mode | polarity<<1 | selector<<2 | enable<<3, each of bits 0..3
\* decodes back to its argument, and the high nibble of low and the whole
\* high byte are those of the value read.
C1_AlertModeRoundTrip ==
    (last.op = "set_alert_mode"
        /\ last.args[1].t = "bool"
        /\ \A i \in 2..4 : last.args[i].v \in {0, 1})
    => /\ last.outcome = "ok"
       /\ Kinds(bus) = <<"w", "r", "w">>
       /\ LET rd == bus[2].d
              wr == bus[3].d
              a  == last.args
          IN  /\ Len(rd) = 2 /\ Len(wr) = 3
              /\ wr[1] = 1
              /\ wr[3] % 16 = a[2].v + 2 * a[3].v + 4 * a[4].v + 8 * a[1].v
              /\ Bit(wr[3], 0) = a[2].v
              /\ Bit(wr[3], 1) = a[3].v
              /\ Bit(wr[3], 2) = a[4].v
              /\ Bit(wr[3], 3) = a[1].v
              /\ \A i \in 4..7 : Bit(wr[3], i) = Bit(rd[2], i)
              /\ \A i \in 0..7 : Bit(wr[2], i) = Bit(rd[1], i)
              /\ CfgReg = <<wr[2], wr[3]>>

\* set_alert_mode(True, 0, 1, 0) has rewritten a config register whose
\* preserved bits were not all zero and whose low nibble it changed
C1_Witness ==
    /\ last.op = "set_alert_mode"
    /\ last.outcome = "ok"
    /\ last.args = <<PyBool(TRUE), PyInt(0), PyInt(1), PyInt(0)>>
    /\ bus[2].d = <<170, 85>>
    /\ bus[3].d = <<1, 170, 90>>

\* C2: in any serial sequence of the three config calls, each call changes
\* only its own bits (set_shutdown_mode(e): bit 0 of the high byte becomes
\* e; acknowledge_alert_irq: bit 5 of the low byte becomes 1;
\* set_alert_mode: bits 0..3 of the low byte), so the alert-status bit (low
\* byte bit 4), the lock bits (low byte bits 6, 7) and bits 1..7 of the
\* high byte always equal their initial values.
C2_ConfigFrame ==
    /\ Bit(CfgReg[2], 4) = Bit(cfg0[2], 4)
    /\ Bit(CfgReg[2], 6) = Bit(cfg0[2], 6)
    /\ Bit(CfgReg[2], 7) = Bit(cfg0[2], 7)
    /\ \A i \in 1..7 : Bit(CfgReg[1], i) = Bit(cfg0[1], i)
    /\ (last.op = "set_shutdown_mode" /\ last.outcome = "ok")
        => /\ Bit(CfgReg[1], 0) = last.args[1].v
           /\ CfgReg[2] = bus[2].d[2]
           /\ \A i \in 1..7 : Bit(CfgReg[1], i) = Bit(bus[2].d[1], i)
    /\ last.op = "acknowledge_alert_irq"
        => /\ Bit(CfgReg[2], 5) = 1
           /\ CfgReg[1] = bus[2].d[1]
           /\ \A i \in (0..7) \ {5} : Bit(CfgReg[2], i) = Bit(bus[2].d[2], i)
    /\ (last.op = "set_alert_mode" /\ last.outcome = "ok")
        => /\ CfgReg[1] = bus[2].d[1]
           /\ \A i \in 4..7 : Bit(CfgReg[2], i) = Bit(bus[2].d[2], i)

\* all three calls have acted on a register whose status bit, lock bit and
\* upper high-byte bits were set at power-up
C2_Witness ==
    /\ last.op = "acknowledge_alert_irq"
    /\ cfg0 = <<170, 85>>
    /\ Bit(cfg0[2], 5) = 0
    /\ Bit(CfgReg[1], 0) # Bit(cfg0[1], 0)
    /\ CfgReg[2] % 16 # cfg0[2] % 16
    /\ Bit(CfgReg[2], 5) = 1

---------------------------------------------------------------------------
(* C3, C5, C9, C10: the boundary and temperature codecs, under SpecCodec   *)

\* the 16-bit word of a 3-byte register write
Word(wr) == wr[2] * 256 + wr[3]

BoundaryCall == last.op = "set_alert_boundary_temp"
BoundaryReg == last.args[1].v
BoundaryValue == last.args[2].v      \* in 1/FracDen degree

\* C3: for every integer v in [-128, 127] and each boundary register 2, 3,
\* 4, set_alert_boundary_temp writes exactly [register, hi, lo] whose
\* 13-bit field, read as two's complement and divided by 16, is v, with
\* fraction bits 2..3, bits 0..1 and bits 13..15 all zero.
C3_IntegerBoundaryExact ==
    (BoundaryCall
        /\ BoundaryReg \in {2, 3, 4}
        /\ BoundaryValue % FracDen = 0
        /\ BoundaryValue \div FracDen \in -128..127)
    => /\ last.outcome = "ok"
       /\ Kinds(bus) = <<"w">>
       /\ LET wr == bus[1].d
              w  == Word(wr)
          IN  /\ Len(wr) = 3
              /\ wr[1] = BoundaryReg
              /\ wr[2] \in Byte /\ wr[3] \in Byte
              /\ \A i \in {0, 1, 2, 3, 13, 14, 15} : Bit(w, i) = 0
              /\ Signed13(w % 8192) = 16 * (BoundaryValue \div FracDen)

\* -128 has been written to the critical boundary register as 0x1800
C3_Witness ==
    /\ BoundaryCall
    /\ BoundaryReg = 4
    /\ BoundaryValue = -128 * FracDen
    /\ bus = <<W(<<4, 24, 0>>)>>

\* C5: for every ambient register value [b0, b1], get_temp returns the
\* 13-bit two's complement of ((b0 & 0x1F) << 8) | b1 divided by 16,
\* whatever the flag bits 5..7 of b0; [0x01, 0x90] decodes to 25.0.
C5_GetTempDecode ==
    last.op = "get_temp"
    => /\ Kinds(bus) = <<"w", "r">>
       /\ bus[1].d = <<5>>
       /\ LET raw == bus[2].d
          IN  /\ last.ret = <<Signed13((raw[1] % 32) * 256 + raw[2])>>
              /\ raw = <<1, 144>> => last.ret = <<25 * 16>>

\* a reading below zero with all three flag bits set: [0xFF, 0xF8] is -0.5
C5_Witness ==
    /\ last.op = "get_temp"
    /\ bus[2].d = <<255, 248>>
    /\ last.ret = <<-8>>

\* the value written by the last boundary call, in sixteenths of a degree
BoundaryWritten == Signed13(Word(bus[1].d) % 8192)

\* C9 as claimed: for every v in [-128, 127] the written field is a
\* multiple of 0.25 at distance at most 0.125 from v (nearest quarter).
C9_NearestQuarter ==
    (BoundaryCall /\ last.outcome = "ok")
    => /\ BoundaryWritten % 4 = 0
       /\ Abs(BoundaryWritten * FracDen - 16 * BoundaryValue) <= 2 * FracDen

\* C9 as the code has it: for every v in [-128, 127] the written field is
\* v truncated toward zero to a multiple of 0.25: a multiple of 0.25
\* between 0 and v, at distance less than 0.25 from v, for v of either
\* sign.
C9_TruncatedQuarter ==
    (BoundaryCall
        /\ BoundaryReg \in {2, 3, 4}
        /\ BoundaryValue >= -128 * FracDen
        /\ BoundaryValue <= 127 * FracDen)
    => /\ last.outcome = "ok"
       /\ Kinds(bus) = <<"w">>
       /\ BoundaryWritten % 4 = 0
       /\ Abs(BoundaryWritten * FracDen - 16 * BoundaryValue) < 4 * FracDen
       /\ BoundaryValue >= 0
            => /\ 0 <= BoundaryWritten
               /\ BoundaryWritten * FracDen <= 16 * BoundaryValue
       /\ BoundaryValue < 0
            => /\ BoundaryWritten <= 0
               /\ 16 * BoundaryValue <= BoundaryWritten * FracDen

\* a negative value that is no multiple of 0.25 and was written as a
\* different, non-zero value
C9_Witness ==
    /\ BoundaryCall
    /\ last.outcome = "ok"
    /\ BoundaryValue < 0
    /\ BoundaryWritten # 0
    /\ BoundaryWritten * FracDen # 16 * BoundaryValue

\* C10: for every ambient register value, the pair (integer, hundredths) of
\* get_temp_int is the reading get_temp returns for the same register, up
\* to the truncation of the fraction to hundredths:
\* |integer + hundredths/100 - get_temp| < 0.01; [0x01, 0x90] gives (25, 0).
C10_IntPairMatchesFloat ==
    last.op = "get_temp_int"
    => LET raw  == bus[2].d
           pair == last.ret
       IN  /\ Abs(16 * (100 * pair[1] + pair[2]) - 100 * TempSixteenths(raw)) < 16
           /\ raw = <<1, 144>> => pair = <<25, 0>>

---------------------------------------------------------------------------
(* C4, C6, C7: validation, construction and bus traffic, under Spec        *)

\* the arguments the record l was called with are ones the method rejects
RejectedArgs(l) ==
    \/ /\ l.op = "set_alert_boundary_temp"
       /\ \/ l.args[1].v \notin {2, 3, 4}
          \/ l.args[2].v < -128 * FracDen
          \/ l.args[2].v > 127 * FracDen
    \/ /\ l.op = "set_resolution"
       /\ l.args[1].v \notin {0, 1, 2, 3}
    \/ /\ l.op = "set_alert_mode"
       /\ \/ l.args[1].t # "bool"
          \/ \E i \in 2..4 : l.args[i].v \notin {0, 1}
    \/ /\ l.op = "set_shutdown_mode"
       /\ l.args[1].t # "bool"

\* C4: a call whose arguments are rejected (boundary register outside
\* {2,3,4}, value below -128 or above 127, resolution outside {0,1,2,3},
\* alert enum outside {0,1}, non-boolean enable or shutdown flag) fails
\* with a validation error before any bus access: no transport call is
\* issued and the sensor's registers and pointer are unchanged.
C4_RejectedBeforeBus ==
    [][RejectedArgs(last')
        => /\ last'.outcome = "ValueError"
           /\ bus' = <<>>
           /\ regs' = regs
           /\ ptr' = ptr]_vars

\* 128 degrees has been rejected on a sensor whose config register earlier
\* calls had changed
C4_Witness ==
    /\ last = Op("set_alert_boundary_temp", <<PyInt(2), PyNum(128 * FracDen)>>,
                 "ValueError", <<>>)
    /\ bus = <<>>
    /\ CfgReg # cfg0

\* the read that follows the write of pointer r in the bus log b
ReadAfter(b, r) ==
    {b[i + 1].d : i \in {j \in 1..(Len(b) - 1) : b[j] = W(<<r>>) /\ b[j + 1].k = "r"}}

Addressed(b, r) == \E i \in 1..Len(b) : b[i].k = "w" /\ b[i].d[1] = r

\* C6: construction succeeds iff the read after addressing register 6
\* returns [0x00, 0x54] and the read after addressing register 7 returns
\* [0x04, 0x00]; the manufacturer is checked first and on its mismatch
\* register 7 is never addressed; without a successful construction no
\* instance exists and no register operation is issued.
C6_IdentityCheck ==
    /\ last.op = "__init__"
        => /\ (last.outcome = "ok")
                <=> (ReadAfter(bus, 6) = {<<0, 84>>} /\ ReadAfter(bus, 7) = {<<4, 0>>})
           /\ (inst = "ok") <=> (last.outcome = "ok")
           /\ bus # <<>> => (bus[1] = W(<<6>>) /\ ReadAfter(bus, 6) # {})
           /\ ReadAfter(bus, 6) # {<<0, 84>>} => ~Addressed(bus, 7)
    /\ inst = "ok" => (regs[6] = <<0, 84>> /\ regs[7] = <<4, 0>>)
    /\ inst # "ok" => last.op \in {"none", "__init__"}
    /\ last.op \notin {"none", "__init__"} => inst = "ok"

\* construction has failed on the device id alone
C6_Witness ==
    /\ last.op = "__init__"
    /\ inst = "failed"
    /\ ReadAfter(bus, 6) = {<<0, 84>>}
    /\ ReadAfter(bus, 7) = {<<4, 1>>}

PublicOps ==
    {"set_shutdown_mode", "set_alert_mode", "acknowledge_alert_irq",
     "set_alert_boundary_temp", "set_resolution", "get_temp", "get_temp_int"}

\* C7 as claimed: every public operation issues exactly one transport write
\* followed by zero or one transport read.
C7_OneWriteThenRead ==
    (last.op \in PublicOps /\ last.outcome = "ok")
    => Kinds(bus) \in {<<"w">>, <<"w", "r">>}

\* C7 as the code has it: set_alert_boundary_temp and set_resolution issue
\* exactly one write and no read; get_temp and get_temp_int issue one write
\* of the register pointer followed by one read; set_shutdown_mode,
\* set_alert_mode and acknowledge_alert_irq issue a write of the register
\* pointer, one read, and then a second write of the whole register; each
\* operation's transport calls are issued back to back, before any other
\* operation begins.
C7_BusPattern ==
    (last.op \in PublicOps /\ last.outcome = "ok")
    => /\ last.op \in {"set_alert_boundary_temp", "set_resolution"}
            => Kinds(bus) = <<"w">>
       /\ last.op \in {"get_temp", "get_temp_int"}
            => (Kinds(bus) = <<"w", "r">> /\ bus[1].d = <<5>>)
       /\ last.op \in {"set_shutdown_mode", "set_alert_mode", "acknowledge_alert_irq"}
            => /\ Kinds(bus) = <<"w", "r", "w">>
               /\ bus[1].d = <<1>>
               /\ Len(bus[2].d) = 2
               /\ Len(bus[3].d) = 3 /\ bus[3].d[1] = 1

\* acknowledge_alert_irq has completed with two writes around its read
C7_Witness ==
    /\ last.op = "acknowledge_alert_irq"
    /\ Kinds(bus) = <<"w", "r", "w">>
    /\ bus[3].d[3] = bus[2].d[2] + 32

---------------------------------------------------------------------------
(* C8: lost updates, under SpecConc                                        *)

\* the config register holds the update of the call
Applied(call, cfg) ==
    CASE call.op = "set_shutdown_mode" -> Bit(cfg[1], 0) = call.args[1].v
      [] call.op = "set_alert_mode" ->
            cfg[2] % 16 = call.args[2].v + 2 * call.args[3].v
                          + 4 * call.args[4].v + 8 * call.args[1].v
      [] call.op = "acknowledge_alert_irq" -> Bit(cfg[2], 5) = 1
      [] OTHER -> TRUE

\* both calls have completed, they were calls of different methods, and
\* the register lacks the update of one of them
LostUpdate ==
    /\ \A c \in Callers : pc[c] = "done"
    /\ loc[1].op # loc[2].op
    /\ \E c \in Callers : ~Applied(loc[c], CfgReg)

\* C8: the config read-modify-write cycles are not atomic: two calls whose
\* transport steps interleave can both complete with one update missing
\* from the final register, while two calls that run one after the other
\* always leave both updates in it; an update is lost only when the calls
\* overlapped.
C8_LostOnlyWhenInterleaved == LostUpdate => overlap

\* set_shutdown_mode(True) and a set_alert_mode call have both completed and
\* the shutdown bit is not set
C8_Witness ==
    /\ LostUpdate
    /\ overlap
    /\ \E c \in Callers :
          /\ loc[c].op = "set_shutdown_mode"
          /\ loc[c].args[1].v = 1
          /\ Bit(CfgReg[1], 0) = 0
    /\ \E c \in Callers : loc[c].op = "set_alert_mode"

====
